---- MODULE Spec2Model ----
(***************************************************************************)
(* Model of logdevice/ops/ldops/cluster.py: the failure-domain grouper     *)
(* (group_nodes_by_scope), the cluster view aggregator (get_cluster_view)  *)
(* and the node lookups (get_node_by_node_index, get_node_by_name).        *)
(***************************************************************************)
EXTENDS Integers, Sequences, FiniteSets, TLC

VARIABLES
    pc,            \* position of the running coroutine
    node_configs,  \* group_nodes_by_scope: the node_configs sequence
    scope,         \* group_nodes_by_scope: tolerable_failure_domains.domain
    idx,           \* group_nodes_by_scope: position of the for loop
    ret,           \* group_nodes_by_scope: the defaultdict(set), in insertion order
    resp,          \* get_cluster_view: outcome of each of the three queries
    finished,      \* get_cluster_view: the queries in the order they completed
    req,           \* lookups: the filter sent to the admin API
    api_resp,      \* lookups: outcome of admin_api.get_nodes_config
    result         \* what the coroutine returned or raised

vars == <<pc, node_configs, scope, idx, ret, resp, finished, req, api_resp, result>>

\* Largest number of nodes in the cluster (node indexes are 0..MaxNodes-1).
MaxNodes == 3

\* Longest node list in a filtered admin API response.
MaxResp == 2

-----------------------------------------------------------------------------
(* Values *)

\* logdevice.common.types.LocationScope (thrift enum), by name and value.
LocationScope ==
    { [name |-> "NODE",        value |-> 0],
      [name |-> "RACK",        value |-> 1],
      [name |-> "ROW",         value |-> 2],
      [name |-> "CLUSTER",     value |-> 3],
      [name |-> "DATA_CENTER", value |-> 4],
      [name |-> "REGION",      value |-> 5],
      [name |-> "ROOT",        value |-> 99] }

ScopeNamed(n) == CHOOSE s \in LocationScope : s.name = n

NODE == ScopeNamed("NODE")

\* The scope levels at which the modelled nodes may carry a label.
LabelScopes == {ScopeNamed("RACK"), ScopeNamed("REGION")}

\* The location_per_scope maps of the modelled nodes: the label "a" at any subset
\* of the label levels, or an explicitly empty label at the REGION level.
LocationMaps ==
    UNION { [S -> {"a"}] : S \in SUBSET LabelScopes }
        \cup [{ScopeNamed("REGION")} -> {""}]

NodeIndexes == 0 .. (MaxNodes - 1)

\* A NodeConfig; name and data_address are unique per node index (AdminAPI guarantee).
NodeConfigOf(i, loc) ==
    [node_index |-> i, name |-> <<"name", i>>, data_address |-> <<"addr", i>>,
     location_per_scope |-> loc]

AllNodeConfigs == { NodeConfigOf(i, loc) : i \in NodeIndexes, loc \in LocationMaps }

\* Sequences of node indexes without repetition, of length n.
InjectiveIndexSeqs(n) ==
    { s \in [1..n -> NodeIndexes] : \A a, b \in 1..n : a # b => s[a] # s[b] }

\* The node config list with node indexes `is` and location maps `locs`.
NodeConfigList(is, locs) == [j \in DOMAIN is |-> NodeConfigOf(is[j], locs[j])]

NoResult == [kind |-> "none"]

\* The three admin API queries of get_cluster_view, in the order gather is given them.
GatherArgs == <<"nodes_config", "nodes_state", "maintenances">>

Queries == { GatherArgs[j] : j \in DOMAIN GatherArgs }

\* A future that has not completed; a value with no attributes.
Pending == [tag |-> "pending"]

NoQueries == [q \in Queries |-> Pending]

\* The exception classes an admin API call raises (all subclasses of Exception).
ExceptionTypes == {"NotSupported", "TransportError", "NodeNotReady"}

\* An exception object: its class and the call that raised it.
ExceptionOf(type, by) == [tag |-> "exc", type |-> type, raised_by |-> by]

\* The response objects of the three queries, each with its own attribute.
Responses(q) ==
    CASE q = "nodes_config" ->
            { [tag |-> "ok", nodes |-> v] : v \in {<<"nc0">>, <<"nc0", "nc1">>} }
      [] q = "nodes_state" ->
            { [tag |-> "ok", states |-> v] : v \in {<<"ns0">>, <<"ns0", "ns1">>} }
      [] q = "maintenances" ->
            { [tag |-> "ok", maintenances |-> v] : v \in {<<>>, <<"m0">>} }

\* What one query can complete with: a response, or an exception it raised.
Outcomes(q) == Responses(q) \cup { ExceptionOf(t, q) : t \in ExceptionTypes }

-----------------------------------------------------------------------------
(* group_nodes_by_scope *)

\* sorted(LocationScope, key=lambda x: x.value, reverse=True)
RECURSIVE sorted_scopes_desc(_)
sorted_scopes_desc(S) ==
    IF S = {} THEN <<>>
    ELSE LET m == CHOOSE x \in S : \A y \in S : y.value <= x.value
         IN  <<m>> \o sorted_scopes_desc(S \ {m})

\* The scope levels from coarsest to finest.
ScopesCoarsestFirst == sorted_scopes_desc(LocationScope)

\* dict.get(key, default)
dict_get(d, key, default) == IF key \in DOMAIN d THEN d[key] ELSE default

\* Mutant: the NODE special case is dropped, every scope uses the label tuple.
location_key_always_labels(node_config, sc) ==
    LET kept == SelectSeq(ScopesCoarsestFirst,
                          LAMBDA k : k.value >= sc.value)
    IN  [j \in 1..Len(kept) |->
            dict_get(node_config.location_per_scope, kept[j], "")]

\* Mutant: only the levels strictly coarser than the scope enter the key.
location_key_strictly_coarser(node_config, sc) ==
    IF sc # NODE
    THEN LET kept == SelectSeq(ScopesCoarsestFirst,
                               LAMBDA k : k.value > sc.value)
         IN  [j \in 1..Len(kept) |->
                 dict_get(node_config.location_per_scope, kept[j], "")]
    ELSE node_config.node_index

\* The location key of one node config (the dict key of the for loop body).
location_key(node_config, sc) ==
    IF sc # NODE
    THEN LET kept == SelectSeq(ScopesCoarsestFirst,
                               LAMBDA k : k.value >= sc.value)
         IN  [j \in 1..Len(kept) |->
                 dict_get(node_config.location_per_scope, kept[j], "")]
    ELSE node_config.node_index

\* NodeID(node_index=..., address=..., name=...)
NodeIDOf(node_config) ==
    [node_index |-> node_config.node_index,
     address    |-> node_config.data_address,
     name       |-> node_config.name]

\* Mutant: the set under an existing key is replaced instead of extended.
dict_add_overwrite(d, key, member) ==
    IF \E j \in 1..Len(d) : d[j].k = key
    THEN LET j == CHOOSE j \in 1..Len(d) : d[j].k = key
         IN  [d EXCEPT ![j].v = {member}]
    ELSE Append(d, [k |-> key, v |-> {member}])

\* ret[location].add(member) on a defaultdict(set); the dict keeps insertion order.
dict_add(d, key, member) ==
    IF \E j \in 1..Len(d) : d[j].k = key
    THEN LET j == CHOOSE j \in 1..Len(d) : d[j].k = key
         IN  [d EXCEPT ![j].v = @ \cup {member}]
    ELSE Append(d, [k |-> key, v |-> {member}])

\* The orders in which a set may be iterated.
IterationOrders(S) ==
    { s \in [1..Cardinality(S) -> S] : \A a, b \in 1..Cardinality(S) : a # b => s[a] # s[b] }

\* Stable insertion of x into a sequence sorted by node_index.
insert_by_node_index(s, x) ==
    LET n == Cardinality({ j \in 1..Len(s) : s[j].node_index <= x.node_index })
    IN  SubSeq(s, 1, n) \o <<x>> \o SubSeq(s, n + 1, Len(s))

\* Mutant: the members keep the set's iteration order.
sorted_by_node_index_unsorted(s) == s

\* sorted(v, key=operator.attrgetter("node_index")) (a stable sort)
RECURSIVE sorted_by_node_index(_)
sorted_by_node_index(s) ==
    IF s = <<>> THEN <<>>
    ELSE insert_by_node_index(sorted_by_node_index(SubSeq(s, 1, Len(s) - 1)), s[Len(s)])

\* Stable insertion of group g into a sequence of groups sorted by first member.
insert_by_first_member(gs, g) ==
    LET n == Cardinality({ j \in 1..Len(gs) : gs[j][1].node_index <= g[1].node_index })
    IN  SubSeq(gs, 1, n) \o <<g>> \o SubSeq(gs, n + 1, Len(gs))

\* sorted(groups, key=lambda x: x[0].node_index) (a stable sort)
RECURSIVE sorted_by_first_member(_)
sorted_by_first_member(gs) ==
    IF gs = <<>> THEN <<>>
    ELSE insert_by_first_member(sorted_by_first_member(SubSeq(gs, 1, Len(gs) - 1)),
                                gs[Len(gs)])

\* One choice of iteration order for the set of every dict entry.
DictIterationOrders(d) ==
    { o \in [1..Len(d) -> UNION { IterationOrders(d[j].v) : j \in 1..Len(d) }] :
        \A j \in 1..Len(d) : o[j] \in IterationOrders(d[j].v) }

\* The returned tuple of tuples, given the order in which each set is iterated.
emit_groups(d, orders) ==
    sorted_by_first_member([j \in 1..Len(d) |-> sorted_by_node_index(orders[j])])

\* The state in which the for loop starts: the arguments are resolved (given by the
\* caller or fetched) to a node config list, in any order, in which every node index
\* occurs at most once, and to a scope; ret is empty.
InitGrouper ==
    /\ pc = "gns_loop"
    /\ \E n \in 0..MaxNodes :
          \E is \in InjectiveIndexSeqs(n), locs \in [1..n -> LocationMaps] :
             node_configs = NodeConfigList(is, locs)
    /\ scope \in LocationScope
    /\ idx = 1
    /\ ret = <<>>
    /\ resp = NoQueries
    /\ finished = <<>>
    /\ req = NoResult
    /\ api_resp = NoResult
    /\ result = NoResult

\* One iteration of `for node_config in node_configs`.
group_nodes_by_scope_iter ==
    /\ pc = "gns_loop"
    /\ idx <= Len(node_configs)
    /\ ret' = dict_add(ret, location_key(node_configs[idx], scope),
                       NodeIDOf(node_configs[idx]))
    /\ idx' = idx + 1
    /\ UNCHANGED <<pc, node_configs, scope, resp, finished, req, api_resp, result>>

\* The return statement after the loop.
group_nodes_by_scope_return ==
    /\ pc = "gns_loop"
    /\ idx > Len(node_configs)
    /\ \E orders \in DictIterationOrders(ret) :
          result' = [kind |-> "groups", value |-> emit_groups(ret, orders)]
    /\ pc' = "gns_done"
    /\ UNCHANGED <<node_configs, scope, idx, ret, resp, finished, req, api_resp>>

NextGrouper == group_nodes_by_scope_iter \/ group_nodes_by_scope_return

SpecGrouper == InitGrouper /\ [][NextGrouper]_vars

-----------------------------------------------------------------------------
(* get_cluster_view *)

\* isinstance(x, Exception)
IsException(x) == x.tag = "exc"

\* isinstance(x, NotSupported)
IsNotSupported(x) == x.tag = "exc" /\ x.type = "NotSupported"

\* Whether object x has attribute a (reading a missing one raises AttributeError).
HasAttr(x, a) == a \in DOMAIN x

Raise(e) == [kind |-> "raise", exc |-> e]

AttributeError == ExceptionOf("AttributeError", "get_cluster_view")

\* Mutant: gather returns as soon as one query raised (return_exceptions=False).
gather_done_fail_fast(r) ==
    \/ \E q \in Queries : IsException(r[q])
    \/ \A q \in Queries : r[q] # Pending

\* asyncio.gather(..., return_exceptions=True) completes when all three have.
gather_done(r) == \A q \in Queries : r[q] # Pending

\* Mutant: the results come in completion order (as from asyncio.as_completed).
gather_results_completion_order(r, fin) ==
    [j \in DOMAIN GatherArgs |-> IF j <= Len(fin) THEN r[fin[j]] ELSE Pending]

\* The results of gather, in the order of its arguments.
gather_results(r, fin) == [j \in DOMAIN GatherArgs |-> r[GatherArgs[j]]]

\* The checks of the node-config and node-state results, and the returned view.
cluster_view_of(nodes_config_resp, nodes_state_resp, maintenances) ==
    IF IsException(nodes_config_resp) THEN Raise(nodes_config_resp)
    ELSE IF IsException(nodes_state_resp) THEN Raise(nodes_state_resp)
    ELSE IF ~HasAttr(nodes_config_resp, "nodes") \/ ~HasAttr(nodes_state_resp, "states")
         THEN Raise(AttributeError)
    ELSE [kind |-> "view",
          nodes_config |-> nodes_config_resp.nodes,
          nodes_state  |-> nodes_state_resp.states,
          maintenances |-> maintenances]

\* Mutant: the node-state result is checked before the node-config result.
cluster_view_of_state_first(nodes_config_resp, nodes_state_resp, maintenances) ==
    IF IsException(nodes_state_resp) THEN Raise(nodes_state_resp)
    ELSE IF IsException(nodes_config_resp) THEN Raise(nodes_config_resp)
    ELSE IF ~HasAttr(nodes_config_resp, "nodes") \/ ~HasAttr(nodes_state_resp, "states")
         THEN Raise(AttributeError)
    ELSE [kind |-> "view",
          nodes_config |-> nodes_config_resp.nodes,
          nodes_state  |-> nodes_state_resp.states,
          maintenances |-> maintenances]

\* Mutant: NotSupported is not recognised, so it is raised like any exception.
get_cluster_view_body_no_soft(nodes_config_resp, nodes_state_resp, maintenances_resp) ==
    IF IsException(maintenances_resp) THEN Raise(maintenances_resp)
    ELSE IF ~HasAttr(maintenances_resp, "maintenances") THEN Raise(AttributeError)
    ELSE cluster_view_of(nodes_config_resp, nodes_state_resp,
                         maintenances_resp.maintenances)

\* Mutant: every maintenance exception is replaced by an empty list.
get_cluster_view_body_soft_any(nodes_config_resp, nodes_state_resp, maintenances_resp) ==
    IF IsException(maintenances_resp)
    THEN cluster_view_of(nodes_config_resp, nodes_state_resp, <<>>)
    ELSE IF ~HasAttr(maintenances_resp, "maintenances") THEN Raise(AttributeError)
    ELSE cluster_view_of(nodes_config_resp, nodes_state_resp,
                         maintenances_resp.maintenances)

\* Mutant: as the code, with the node-state result checked before the node-config one.
get_cluster_view_body_state_first(nodes_config_resp, nodes_state_resp, maintenances_resp) ==
    IF IsNotSupported(maintenances_resp)
    THEN cluster_view_of_state_first(nodes_config_resp, nodes_state_resp, <<>>)
    ELSE IF IsException(maintenances_resp) THEN Raise(maintenances_resp)
    ELSE IF ~HasAttr(maintenances_resp, "maintenances") THEN Raise(AttributeError)
    ELSE cluster_view_of_state_first(nodes_config_resp, nodes_state_resp,
                                     maintenances_resp.maintenances)

\* The body of get_cluster_view after the await, on the three results of gather.
get_cluster_view_body(nodes_config_resp, nodes_state_resp, maintenances_resp) ==
    IF IsNotSupported(maintenances_resp)
    THEN cluster_view_of(nodes_config_resp, nodes_state_resp, <<>>)
    ELSE IF IsException(maintenances_resp) THEN Raise(maintenances_resp)
    ELSE IF ~HasAttr(maintenances_resp, "maintenances") THEN Raise(AttributeError)
    ELSE cluster_view_of(nodes_config_resp, nodes_state_resp,
                         maintenances_resp.maintenances)

\* get_cluster_view has issued its three queries and awaits gather.
InitView ==
    /\ pc = "gcv_gather"
    /\ resp = NoQueries
    /\ finished = <<>>
    /\ node_configs = <<>>
    /\ scope = NODE
    /\ idx = 1
    /\ ret = <<>>
    /\ req = NoResult
    /\ api_resp = NoResult
    /\ result = NoResult

\* One of the outstanding queries completes, with a response or an exception.
admin_api_query_completes ==
    /\ pc = "gcv_gather"
    /\ \E q \in Queries :
          /\ resp[q] = Pending
          /\ \E o \in Outcomes(q) : resp' = [resp EXCEPT ![q] = o]
          /\ finished' = Append(finished, q)
    /\ UNCHANGED <<pc, node_configs, scope, idx, ret, req, api_resp, result>>

\* gather completes and get_cluster_view runs to its return or raise.
get_cluster_view_resume ==
    /\ pc = "gcv_gather"
    /\ gather_done(resp)
    /\ LET results == gather_results(resp, finished)
       IN  result' = get_cluster_view_body(results[1], results[2], results[3])
    /\ pc' = "gcv_done"
    /\ UNCHANGED <<node_configs, scope, idx, ret, resp, finished, req, api_resp>>

NextView == admin_api_query_completes \/ get_cluster_view_resume

SpecView == InitView /\ [][NextView]_vars

-----------------------------------------------------------------------------
(* get_node_by_node_index, get_node_by_name *)

\* SocketAddress.from_thrift(addr)
SocketAddress_from_thrift(addr) == <<"SocketAddress", addr>>

\* _get_node_by_node_config(nc)
get_node_by_node_config(nc) ==
    [node_index |-> nc.node_index,
     data_addr  |-> SocketAddress_from_thrift(nc.data_address),
     name       |-> nc.name]

\* The node lists of a filtered node-config response.
ResponseNodeLists == UNION { [1..n -> AllNodeConfigs] : n \in 0..MaxResp }

\* What the filtered node-config query can complete with.
LookupOutcomes ==
    { [tag |-> "ok", nodes |-> ns] : ns \in ResponseNodeLists }
        \cup { ExceptionOf(t, "nodes_config") : t \in {"TransportError", "NodeNotReady"} }

NodeNotFoundError(by) == ExceptionOf("NodeNotFoundError", by)

\* Mutant: the last record of the response is converted instead of the first.
get_node_by_node_index_body_last(r) ==
    IF IsException(r) THEN Raise(r)
    ELSE IF r.nodes = <<>> THEN Raise(NodeNotFoundError("get_node_by_node_index"))
    ELSE [kind |-> "node", value |-> get_node_by_node_config(r.nodes[Len(r.nodes)])]

\* The body of get_node_by_node_index on the outcome of the awaited query.
get_node_by_node_index_body(r) ==
    IF IsException(r) THEN Raise(r)
    ELSE IF r.nodes = <<>> THEN Raise(NodeNotFoundError("get_node_by_node_index"))
    ELSE [kind |-> "node", value |-> get_node_by_node_config(r.nodes[1])]

\* The body of get_node_by_name on the outcome of the awaited query.
get_node_by_name_body(r) ==
    IF IsException(r) THEN Raise(r)
    ELSE IF r.nodes = <<>> THEN Raise(NodeNotFoundError("get_node_by_name"))
    ELSE [kind |-> "node", value |-> get_node_by_node_config(r.nodes[1])]

\* A lookup has sent its filtered query, whose outcome is drawn here.
InitLookup ==
    /\ \/ /\ pc = "gnbi_await"
          /\ \E i \in NodeIndexes : req = [by |-> "node_index", node_index |-> i]
       \/ /\ pc = "gnbn_await"
          /\ \E i \in NodeIndexes : req = [by |-> "name", name |-> <<"name", i>>]
    /\ api_resp \in LookupOutcomes
    /\ node_configs = <<>>
    /\ scope = NODE
    /\ idx = 1
    /\ ret = <<>>
    /\ resp = NoQueries
    /\ finished = <<>>
    /\ result = NoResult

get_node_by_node_index ==
    /\ pc = "gnbi_await"
    /\ result' = get_node_by_node_index_body(api_resp)
    /\ pc' = "gnbi_done"
    /\ UNCHANGED <<node_configs, scope, idx, ret, resp, finished, req, api_resp>>

get_node_by_name ==
    /\ pc = "gnbn_await"
    /\ result' = get_node_by_name_body(api_resp)
    /\ pc' = "gnbn_done"
    /\ UNCHANGED <<node_configs, scope, idx, ret, resp, finished, req, api_resp>>

NextLookup == get_node_by_node_index \/ get_node_by_name

SpecLookup == InitLookup /\ [][NextLookup]_vars

-----------------------------------------------------------------------------
(* The module as a whole: the caller runs one of the coroutines. *)

Init == InitGrouper \/ InitView \/ InitLookup

Next == NextGrouper \/ NextView \/ NextLookup

Spec == Init /\ [][Next]_vars

-----------------------------------------------------------------------------
(* Properties of group_nodes_by_scope (checked under SpecGrouper) *)

Groups == result.value

Members(g) == { g[j] : j \in DOMAIN g }

InputNodeIDs == { NodeIDOf(node_configs[j]) : j \in DOMAIN node_configs }

\* The label of a node config at a scope level, an absent label being "".
LabelAt(nc, s) ==
    IF s \in DOMAIN nc.location_per_scope THEN nc.location_per_scope[s] ELSE ""

\* Whether two node configs ended up in the same returned group.
SameGroup(a, b) ==
    \E j \in DOMAIN Groups :
        NodeIDOf(a) \in Members(Groups[j]) /\ NodeIDOf(b) \in Members(Groups[j])

\* C1: the returned groups partition the input nodes exactly: the union of the
\* groups' members is the set of input nodes, no group is empty, no node is
\* listed twice in a group and no node is in two groups.
C1_GroupsPartitionInput ==
    pc = "gns_done" =>
        /\ UNION { Members(Groups[j]) : j \in DOMAIN Groups } = InputNodeIDs
        /\ \A j \in DOMAIN Groups :
              /\ Groups[j] # <<>>
              /\ Cardinality(Members(Groups[j])) = Len(Groups[j])
        /\ \A j, k \in DOMAIN Groups :
              j # k => Members(Groups[j]) \cap Members(Groups[k]) = {}

C1_Witness ==
    /\ pc = "gns_done"
    /\ Len(node_configs) = 3
    /\ Len(Groups) = 2
    /\ \E j \in DOMAIN Groups : Len(Groups[j]) = 2

\* The input node configs as a set, and the classes of nodes with one location key.
InputNodeConfigs == { node_configs[j] : j \in DOMAIN node_configs }

KeyClasses ==
    { { NodeIDOf(b) : b \in { c \in InputNodeConfigs :
                                location_key(c, scope) = location_key(a, scope) } } :
      a \in InputNodeConfigs }

\* C5: within every returned group the members are in strictly ascending node
\* index order, and the groups are in strictly ascending order of the node index
\* of their first member; the groups are the key classes of the input node set,
\* so the result is fixed by that set and the scope, whatever the order of the
\* input list and the iteration order of the accumulated dict and sets.
C5_OutputOrdered ==
    pc = "gns_done" =>
        /\ \A j \in DOMAIN Groups : \A a, b \in DOMAIN Groups[j] :
              a < b => Groups[j][a].node_index < Groups[j][b].node_index
        /\ \A j, k \in DOMAIN Groups :
              j < k => Groups[j][1].node_index < Groups[k][1].node_index
        /\ { Members(Groups[j]) : j \in DOMAIN Groups } = KeyClasses

\* An input list in descending index order whose first dict entry is returned last.
C5_Witness ==
    /\ pc = "gns_done"
    /\ Len(node_configs) = 3
    /\ \A j \in 1..2 : node_configs[j].node_index > node_configs[j + 1].node_index
    /\ Len(Groups) = 2
    /\ Members(Groups[2]) = ret[1].v
    /\ Len(Groups[1]) = 2

\* C6: with scope NODE there are as many groups as input node configs and every
\* group is a singleton, whatever the location labels.
C6_NodeScopeSingletons ==
    (pc = "gns_done" /\ scope = NODE) =>
        /\ Len(Groups) = Len(node_configs)
        /\ \A j \in DOMAIN Groups : Len(Groups[j]) = 1

\* Scope NODE with three nodes, two of them carrying the same labels.
C6_Witness ==
    /\ pc = "gns_done"
    /\ scope = NODE
    /\ Len(node_configs) = 3
    /\ node_configs[1].location_per_scope = node_configs[2].location_per_scope
    /\ node_configs[1].location_per_scope # node_configs[3].location_per_scope
    /\ Len(Groups) = 3

\* C9: for a scope other than NODE two input nodes are in the same group if and
\* only if their labels agree at every scope level whose value is at least the
\* target scope's value, an absent label counting as the empty string.
C9_SameGroupIffSameCoarseLabels ==
    (pc = "gns_done" /\ scope # NODE) =>
        \A a, b \in DOMAIN node_configs :
            SameGroup(node_configs[a], node_configs[b])
                <=> \A s \in LocationScope :
                        s.value >= scope.value =>
                            LabelAt(node_configs[a], s) = LabelAt(node_configs[b], s)

\* Scope ROW: two nodes that differ only at the finer RACK level, and a node
\* with no REGION label beside one whose REGION label is "", all in one group.
C9_Witness ==
    /\ pc = "gns_done"
    /\ scope = ScopeNamed("ROW")
    /\ Len(node_configs) = 3
    /\ Len(Groups) = 1
    /\ \E a, b \in DOMAIN node_configs :
          LabelAt(node_configs[a], ScopeNamed("RACK"))
              # LabelAt(node_configs[b], ScopeNamed("RACK"))
    /\ \E a, b \in DOMAIN node_configs :
          /\ ScopeNamed("REGION") \in DOMAIN node_configs[a].location_per_scope
          /\ ScopeNamed("REGION") \notin DOMAIN node_configs[b].location_per_scope

-----------------------------------------------------------------------------
(* Properties of get_cluster_view (checked under SpecView) *)

IsResponse(x) == x.tag = "ok"

\* A failure of query q that is not the soft failure of the maintenance query.
HardFailed(q) ==
    IsException(resp[q]) /\ ~(q = "maintenances" /\ IsNotSupported(resp[q]))

\* C2: when the maintenance query raised NotSupported and the other two queries
\* succeeded, get_cluster_view returns a view with an empty maintenance list and
\* the node configs and node states of the two responses.
C2_NotSupportedIsSoft ==
    ( /\ pc = "gcv_done"
      /\ IsNotSupported(resp["maintenances"])
      /\ IsResponse(resp["nodes_config"])
      /\ IsResponse(resp["nodes_state"]) ) =>
        result = [kind |-> "view",
                  nodes_config |-> resp["nodes_config"].nodes,
                  nodes_state  |-> resp["nodes_state"].states,
                  maintenances |-> <<>>]

C2_Witness ==
    /\ pc = "gcv_done"
    /\ IsNotSupported(resp["maintenances"])
    /\ IsResponse(resp["nodes_config"])
    /\ IsResponse(resp["nodes_state"])
    /\ result.kind = "view"
    /\ Len(result.nodes_config) = 2
    /\ Len(result.nodes_state) = 1

\* C3: a view is returned exactly when the node-config and node-state queries
\* succeeded and the maintenance query succeeded or raised NotSupported; in every
\* other combination of outcomes the call raises.
C3_ViewOnlyWhenComplete ==
    pc = "gcv_done" =>
        IF /\ IsResponse(resp["nodes_config"])
           /\ IsResponse(resp["nodes_state"])
           /\ (IsResponse(resp["maintenances"]) \/ IsNotSupported(resp["maintenances"]))
        THEN result.kind = "view"
        ELSE result.kind = "raise"

\* A soft maintenance failure together with NotSupported from the node-config query.
C3_Witness ==
    /\ pc = "gcv_done"
    /\ IsNotSupported(resp["maintenances"])
    /\ IsNotSupported(resp["nodes_config"])
    /\ IsResponse(resp["nodes_state"])
    /\ result.kind = "raise"

IsTransportError(x) == x.tag = "exc" /\ x.type = "TransportError"

\* C4 as stated: when the node-config query raised a transport error, the call
\* raises that same error whatever the other two outcomes are.
C4_ConfigErrorAlwaysRaised ==
    (pc = "gcv_done" /\ IsTransportError(resp["nodes_config"])) =>
        result = Raise(resp["nodes_config"])

\* C4 as amended: when the node-config query raised a transport error the call
\* returns no view; it raises the maintenance query's error when that query
\* raised anything other than NotSupported, and otherwise raises the
\* node-config query's error, whatever the node-state outcome is.
C4_ConfigErrorRaisedUnlessMaintenanceFailed ==
    (pc = "gcv_done" /\ IsTransportError(resp["nodes_config"])) =>
        IF HardFailed("maintenances")
        THEN result = Raise(resp["maintenances"])
        ELSE result = Raise(resp["nodes_config"])

\* The node-config error raised although the node-state query failed too, and first.
C4_Witness ==
    /\ pc = "gcv_done"
    /\ IsTransportError(resp["nodes_config"])
    /\ IsException(resp["nodes_state"])
    /\ finished[1] = "nodes_state"
    /\ IsNotSupported(resp["maintenances"])
    /\ result = Raise(resp["nodes_config"])

\* C8 as stated: as soon as one query has hard-failed, get_cluster_view can
\* propagate the failure, without waiting for the outstanding queries.
C8_FailFast ==
    (pc = "gcv_gather" /\ \E q \in Queries : HardFailed(q)) =>
        ENABLED get_cluster_view_resume

\* C8 as amended: get_cluster_view propagates a hard failure only once all three
\* queries have completed: while a query is outstanding it stays suspended, and
\* when it has raised no query is outstanding.
C8_HardFailureWaitsForAll ==
    /\ (pc = "gcv_gather" /\ \E q \in Queries : resp[q] = Pending) =>
          ~ENABLED get_cluster_view_resume
    /\ (pc = "gcv_done" /\ \E q \in Queries : HardFailed(q)) =>
          /\ result.kind = "raise"
          /\ \A q \in Queries : resp[q] # Pending

\* The query that completed first hard-failed, and the call raised after all three.
C8_Witness ==
    /\ pc = "gcv_done"
    /\ HardFailed(finished[1])
    /\ IsResponse(resp[finished[3]])
    /\ result = Raise(resp[finished[1]])

\* C10: the outcome is decided by the three query outcomes alone, by a fixed
\* priority: a maintenance error other than NotSupported, then the node-config
\* error, then the node-state error, else the view; the completion order of the
\* queries plays no part.
C10_OutcomeByFixedPriority ==
    pc = "gcv_done" =>
        result =
            IF HardFailed("maintenances") THEN Raise(resp["maintenances"])
            ELSE IF IsException(resp["nodes_config"]) THEN Raise(resp["nodes_config"])
            ELSE IF IsException(resp["nodes_state"]) THEN Raise(resp["nodes_state"])
            ELSE [kind |-> "view",
                  nodes_config |-> resp["nodes_config"].nodes,
                  nodes_state  |-> resp["nodes_state"].states,
                  maintenances |-> IF IsResponse(resp["maintenances"])
                                   THEN resp["maintenances"].maintenances
                                   ELSE <<>>]

\* All three queries failed, the maintenance query last in time, and its error is raised.
C10_Witness ==
    /\ pc = "gcv_done"
    /\ finished = <<"nodes_state", "nodes_config", "maintenances">>
    /\ \A q \in Queries : HardFailed(q)
    /\ result = Raise(resp["maintenances"])

-----------------------------------------------------------------------------
(* Properties of the lookups (checked under SpecLookup) *)

\* C7: a lookup raises NodeNotFoundError exactly when the response holds no
\* node; on a non-empty response it returns the node (index, name, address) of
\* the first record; it never returns a node on an empty response.
C7_NotFoundIffEmptyResponse ==
    pc \in {"gnbi_done", "gnbn_done"} =>
        /\ (result.kind = "raise" /\ result.exc.type = "NodeNotFoundError")
              <=> (IsResponse(api_resp) /\ Len(api_resp.nodes) = 0)
        /\ (IsResponse(api_resp) /\ Len(api_resp.nodes) > 0) =>
              result = [kind |-> "node",
                        value |-> [node_index |-> api_resp.nodes[1].node_index,
                                   data_addr  |-> SocketAddress_from_thrift(
                                                      api_resp.nodes[1].data_address),
                                   name       |-> api_resp.nodes[1].name]]
        /\ result.kind = "node" => (IsResponse(api_resp) /\ Len(api_resp.nodes) > 0)

\* A response of two records for different nodes, answered with the first.
C7_Witness ==
    /\ pc = "gnbi_done"
    /\ IsResponse(api_resp)
    /\ Len(api_resp.nodes) = 2
    /\ api_resp.nodes[1].node_index # api_resp.nodes[2].node_index
    /\ result.kind = "node"
    /\ result.value.node_index = api_resp.nodes[1].node_index

====
